---- MODULE Spec2Model ----
(***************************************************************************)
(* Contradiction-detection core of justice-document-pip:                   *)
(*   analyzer/__init__.py   evaluate, get_rules_fingerprint                *)
(*   analyzer/all_rules.py  get_all_rule_functions                         *)
(*   analyzer/id.py         contradiction_id                               *)
(*   analyzer/rules_*.py    the registered rule functions                  *)
(*   test_complete_pipeline.py  the dedup / score / sort / CSV stage       *)
(*   analyzer/rules.py      the @rule registry                             *)
(*   analyzer/rule_meta.py  RULE_META, SEVERITY_BASE                       *)
(*   scripts/scoding.py     RuleWeights, ContradictionScorer               *)
(* Strings are sequences of symbols (single characters or whole words).    *)
(***************************************************************************)
EXTENDS Integers, Sequences, FiniteSets, TLC

\* ------------------------------------------------------------------ bounds
MaxStmts == 3
MaxRegistryStmts == 1
MaxRegistered == 2
MaxScored == 2
MaxBasicStmts == 3
MaxIdCalls == 2
NumAddrs == 3
MaxDocs == 2
MaxSCodeCalls == 2
MaxMtime == 3
MaxTime == 4
MaxTicks == 2
MaxTimedStmts == 2

\* ----------------------------------------------------------------- strings
Absent == "<absent>"
NonStr == "<None>"
Unhashable == "<list>"

\* Code point order of the symbols strings are built from (Python compares
\* str by code point; ":" sorts before the letters).
Symbols ==
  <<":", "a", "b", "c", "d", "e", "f", "g",
    "evidence", "witness", "was present", "missing", "cost", "$100",
    "$200">>

SymCode(c) == CHOOSE k \in 1..Len(Symbols) : Symbols[k] = c

DigestBase == Len(Symbols) + 1

RECURSIVE StrLess(_, _)
StrLess(s, t) ==
  IF s = <<>> THEN t # <<>>
  ELSE IF t = <<>> THEN FALSE
  ELSE IF Head(s) = Head(t) THEN StrLess(Tail(s), Tail(t))
  ELSE SymCode(Head(s)) < SymCode(Head(t))

\* sorted([x, y])
Sorted2(x, y) == IF StrLess(y, x) THEN <<y, x>> ELSE <<x, y>>

\* hashlib.sha256(s).hexdigest()[:16] and hashlib.sha1(s).hexdigest()[:12]:
\* a deterministic digest of the whole string, free of collisions on the
\* bounded strings of the model (Horner fold over the symbol codes).
RECURSIVE Digest(_, _)
Digest(codes, base) ==
  IF Len(codes) = 0 THEN 0
  ELSE Head(codes) + base * Digest(Tail(codes), base)

\* hashlib.sha256(hash_input.encode('utf-8')).hexdigest()[:16]
sha256_16(s) == Digest([k \in 1..Len(s) |-> SymCode(s[k])], DigestBase)

\* -------------------------------------------------------------- statements
\* A statement is a dict; a key the dict lacks holds Absent.
Stmt(id, event, party, location, status, content) ==
  [id |-> id, event |-> event, party |-> party, case |-> Absent,
   person |-> Absent, location |-> location, status |-> status,
   content |-> content]

Pool ==
  { Stmt(<<"a">>, "E", "P", "L1", "ACTIVE", <<Absent>>),
    Stmt(<<"b">>, "E", "P", "L2", "CLOSED", <<Absent>>),
    Stmt(<<Absent>>, "E", "P", "L1", "OPEN", <<Absent>>),
    Stmt(<<"d">>, Absent, Absent, Absent, Absent,
         <<"evidence", "witness", "was present", "cost", "$100">>),
    Stmt(<<"e">>, Absent, Absent, Absent, Absent,
         <<"evidence", "witness", "missing", "cost", "$200">>),
    Stmt(<<"f">>, "E", "P", Unhashable, Absent, <<Absent>>),
    Stmt(<<"g">>, Absent, Absent, Absent, Absent, <<NonStr>>) }

\* stmt.get(key, default)
Get(stmt, key, default) == IF stmt[key] = Absent THEN default ELSE stmt[key]

\* stmt.get('content', '')
GetContent(stmt) == IF stmt.content = <<Absent>> THEN <<>> ELSE stmt.content

\* Python truthiness of a field value (None and '' are falsy).
Truthy(v) == v # Absent /\ v # ""

\* ------------------------------------------------------- analyzer/id.py
\* stmt.get('id', str(stmt.get('content', '')))
StmtIdStr(stmt) == IF stmt.id = <<Absent>> THEN GetContent(stmt) ELSE stmt.id

hash_input_unsorted(statement_a, statement_b) ==
  StmtIdStr(statement_a) \o <<":", ":">> \o StmtIdStr(statement_b)
hash_input(statement_a, statement_b) ==
  LET sorted_ids == Sorted2(StmtIdStr(statement_a), StmtIdStr(statement_b))
  IN  sorted_ids[1] \o <<":", ":">> \o sorted_ids[2]

HexCid(h) == [kind |-> "hex", h |-> h, rule |-> ""]
ErrCid(r) == [kind |-> "error", h |-> 0, rule |-> r]
NoCid == [kind |-> "none", h |-> 0, rule |-> ""]

contradiction_id(statement_a, statement_b) ==
  HexCid(sha256_16(hash_input(statement_a, statement_b)))

\* ----------------------------------------------------------------- helpers
RECURSIVE Flatten(_)
Flatten(ss) == IF Len(ss) = 0 THEN <<>> ELSE Head(ss) \o Flatten(Tail(ss))

\* Keys of a dict in insertion order: first occurrences of s, in order.
RECURSIVE Keys(_)
Keys(s) ==
  IF Len(s) = 0 THEN <<>>
  ELSE LET r == Keys(SubSeq(s, 1, Len(s) - 1))
           x == s[Len(s)]
       IN  IF \E k \in 1..Len(r) : r[k] = x THEN r ELSE Append(r, x)

\* The pairs <<a, b>> visited by `for a in A: for b in B`, in order.
Cross(A, B) ==
  Flatten([i \in 1..Len(A) |-> [j \in 1..Len(B) |-> <<A[i], B[j]>>]])

\* The pairs <<x, y>> visited by `for i, x in enumerate(L): for y in L[i+1:]`
\* (and by `for i in range(n): for j in range(i + 1, n)`), in order.
UpperPairs(L) ==
  Flatten([i \in 1..Len(L) |->
            Flatten([j \in 1..Len(L) |->
                      IF j > i THEN << <<L[i], L[j]>> >> ELSE <<>>])])

\* `kw in content`: substring test on the lower-cased content.
SubstringsOf(sym) ==
  IF sym = "was present" THEN {"was present", "present"} ELSE {sym}

Contains(content, kw) ==
  \E k \in 1..Len(content) : kw \in SubstringsOf(content[k])

\* re.findall over number_patterns: the amounts a content symbol holds.
AmountOf(sym) ==
  IF sym = "$100" THEN <<100>> ELSE IF sym = "$200" THEN <<200>> ELSE <<>>

\* ---------------------------------------------------------------- candidates
NoScore == -1

\* A confidence is held in hundredths; NoConfidence marks a record without
\* the key.
NoConfidence == -1

\* A 'confidence' key that holds None (JSON null) instead of a number.
NullConfidence == -2

\* The dict a rule appends. No rule sets a 'severity' key; the presence and
\* numeric rules set 'confidence', the status and location rules do not.
Candidate(cid, type, rule, sa, sb, stmts, description, confidence) ==
  [contradiction_id |-> cid, type |-> type, rule |-> rule, error |-> "",
   statement_a |-> sa, statement_b |-> sb, statements |-> stmts,
   description |-> description, severity |-> Absent,
   confidence |-> confidence, score |-> NoScore]

\* ----------------------------------------------- analyzer/rules_status.py
contradictory_pairs ==
  << <<"ACTIVE", "CLOSED">>, <<"OPEN", "CLOSED">>,
     <<"SUBSTANTIATED", "UNSUBSTANTIATED">>, <<"FOUNDED", "UNFOUNDED">> >>

StatusCaseKey(stmt) == Get(stmt, "case", Get(stmt, "event", "unknown"))

\* `status not in cases[case_key]` raises TypeError on an unhashable status.
status_change_raises(stmts) ==
  \E k \in 1..Len(stmts) : stmts[k].status = Unhashable

status_change_inconsistency(stmts) ==
  LET withStatus == SelectSeq(stmts, LAMBDA s : Truthy(s.status))
      cases == Keys([k \in 1..Len(withStatus) |-> StatusCaseKey(withStatus[k])])
      group(ck, st) ==
        SelectSeq(withStatus, LAMBDA s : StatusCaseKey(s) = ck /\ s.status = st)
      cand(ck, p, a, b) ==
        Candidate(contradiction_id(a, b), "status_change_inconsistency", "",
                  <<a>>, <<b>>, <<>>, <<ck, p[1], p[2]>>, NoConfidence)
      forPair(ck, p) ==
        IF Len(group(ck, p[1])) > 0 /\ Len(group(ck, p[2])) > 0
        THEN LET ab == Cross(group(ck, p[1]), group(ck, p[2]))
             IN  [k \in 1..Len(ab) |-> cand(ck, p, ab[k][1], ab[k][2])]
        ELSE <<>>
  IN  Flatten([c \in 1..Len(cases) |->
        Flatten([p \in 1..Len(contradictory_pairs) |->
                  forPair(cases[c], contradictory_pairs[p])])])

\* --------------------------------------------- analyzer/rules_location.py
LocationKey(stmt) ==
  <<Get(stmt, "event", "unknown"),
    Get(stmt, "person", Get(stmt, "party", "unknown"))>>

\* `location not in locations[key]` raises TypeError on an unhashable value.
location_raises(stmts) ==
  \E k \in 1..Len(stmts) : stmts[k].location = Unhashable

location_contradiction(stmts) ==
  LET located == SelectSeq(stmts, LAMBDA s : Truthy(s.location))
      keys == Keys([k \in 1..Len(located) |-> LocationKey(located[k])])
      ofKey(key) == SelectSeq(located, LAMBDA s : LocationKey(s) = key)
      location_list(key) ==
        Keys([k \in 1..Len(ofKey(key)) |-> ofKey(key)[k].location])
      group(key, loc) == SelectSeq(ofKey(key), LAMBDA s : s.location = loc)
      cand(la, lb, a, b) ==
        Candidate(contradiction_id(a, b), "location_contradiction", "",
                  <<a>>, <<b>>, <<>>, <<la, lb>>, NoConfidence)
      forLocations(key, la, lb) ==
        LET ab == Cross(group(key, la), group(key, lb))
        IN  [k \in 1..Len(ab) |-> cand(la, lb, ab[k][1], ab[k][2])]
      forKey(key) ==
        LET ll == UpperPairs(location_list(key))
        IN  Flatten([q \in 1..Len(ll) |->
                      forLocations(key, ll[q][1], ll[q][2])])
  IN  Flatten([k \in 1..Len(keys) |-> forKey(keys[k])])

\* --------------------------------------------- analyzer/rules_presence.py
absence_keywords ==
  <<"was not found", "not found", "not observed", "not visible",
    "not there", "absent", "missing">>
presence_keywords ==
  <<"was present", "present", "was there", "existed", "found", "observed",
    "visible">>
subjects ==
  <<"evidence", "witness", "document", "person", "item", "weapon", "vehicle">>

AnyKeyword(content, keywords) ==
  \E k \in 1..Len(keywords) : Contains(content, keywords[k])

\* stmt.get('content', '').lower() raises AttributeError on a non-string.
content_raises(stmts) ==
  \E k \in 1..Len(stmts) : stmts[k].content = <<NonStr>>

presence_absence_conflict(stmts) ==
  LET is_absent(s) == AnyKeyword(GetContent(s), absence_keywords)
      is_present(s) ==
        ~is_absent(s) /\ AnyKeyword(GetContent(s), presence_keywords)
      present_statements(subject) ==
        SelectSeq(stmts, LAMBDA s :
                    Contains(GetContent(s), subject) /\ is_present(s))
      absent_statements(subject) ==
        SelectSeq(stmts, LAMBDA s :
                    Contains(GetContent(s), subject) /\ is_absent(s))
      forSubject(subject) ==
        IF Len(present_statements(subject)) > 0
           /\ Len(absent_statements(subject)) > 0
        THEN << Candidate(NoCid, "presence_absence_conflict", "", <<>>, <<>>,
                          present_statements(subject)
                            \o absent_statements(subject),
                          <<"presence/absence", subject>>, 90) >>
        ELSE <<>>
  IN  Flatten([k \in 1..Len(subjects) |-> forSubject(subjects[k])])

\* ---------------------------------------------- analyzer/rules_numeric.py
contexts == <<"damage", "cost", "age", "count", "time", "amount">>

\* The (number, statement) matches of a statement list, in match order.
NumberMatches(context_statements) ==
  Flatten([k \in 1..Len(context_statements) |->
    LET content == GetContent(context_statements[k])
    IN  Flatten([c \in 1..Len(content) |->
          [m \in 1..Len(AmountOf(content[c])) |->
            [num |-> AmountOf(content[c])[m],
             stmt |-> context_statements[k]]]])])

Abs(x) == IF x < 0 THEN -x ELSE x
Max3(x, y, z) ==
  IF x >= y /\ x >= z THEN x ELSE IF y >= z THEN y ELSE z

\* abs(num1 - num2) / max(num1, num2, 1) > 0.1
Mismatch(num1, num2) == 10 * Abs(num1 - num2) > Max3(num1, num2, 1)

numeric_amount_mismatch(stmts) ==
  LET context_statements(context) ==
        SelectSeq(stmts, LAMBDA s : Contains(GetContent(s), context))
      matches(context) == NumberMatches(context_statements(context))
      numbers(context) ==
        Keys([k \in 1..Len(matches(context)) |-> matches(context)[k].num])
      number_groups(context, num) ==
        LET ms == SelectSeq(matches(context), LAMBDA m : m.num = num)
        IN  [k \in 1..Len(ms) |-> ms[k].stmt]
      forContext(context) ==
        IF Len(context_statements(context)) < 2 THEN <<>>
        ELSE LET nn == UpperPairs(numbers(context))
             IN  Flatten([q \in 1..Len(nn) |->
                   IF Mismatch(nn[q][1], nn[q][2])
                   THEN << Candidate(NoCid, "numeric_amount_mismatch", "",
                                     <<>>, <<>>,
                                     number_groups(context, nn[q][1])
                                       \o number_groups(context, nn[q][2]),
                                     <<"numeric", context>>, 80) >>
                   ELSE <<>>])
  IN  Flatten([k \in 1..Len(contexts) |-> forContext(contexts[k])])

\* ------------------------------------------------ analyzer/all_rules.py
core_rules ==
  <<"event_date_disagreement", "presence_absence_conflict",
    "numeric_amount_mismatch">>
optional_rules ==
  <<"status_change_inconsistency", "location_contradiction",
    "role_responsibility_conflict", "date_range_overlap_conflict">>

\* The rule functions the star-imports can bind in globals(): rules_dates
\* defines no event_date_disagreement; rules_presence and rules_numeric are
\* imported unconditionally, the optional modules inside try/except.
AlwaysDefined == {"presence_absence_conflict", "numeric_amount_mismatch"}
MaybeDefined == {"status_change_inconsistency", "location_contradiction"}

get_all_rule_functions(globals) ==
  SelectSeq(core_rules, LAMBDA n : n \in globals)
    \o SelectSeq(optional_rules, LAMBDA n : n \in globals)

\* Does rule_func(statements) raise?
Raises(rule_func, stmts) ==
  CASE rule_func = "presence_absence_conflict" -> content_raises(stmts)
    [] rule_func = "numeric_amount_mismatch" -> content_raises(stmts)
    [] rule_func = "status_change_inconsistency" -> status_change_raises(stmts)
    [] rule_func = "location_contradiction" -> location_raises(stmts)

\* The exception class rule_func raises.
ExceptionOf(rule_func) ==
  IF rule_func \in AlwaysDefined THEN "AttributeError" ELSE "TypeError"

\* `except Exception`: every Exception subclass is caught, KeyboardInterrupt
\* and SystemExit are not.
ExceptionSubclasses ==
  {"AttributeError", "TypeError", "ValueError", "KeyError",
   "ZeroDivisionError"}

evaluate_catches_narrow(cls) == cls \in {"ValueError", "KeyError"}
evaluate_catches(cls) == cls \in ExceptionSubclasses

\* str(e) of the exception the rule raises.
ErrorMessage(rule_func) ==
  IF rule_func \in AlwaysDefined
  THEN "'NoneType' object has no attribute 'lower'"
  ELSE "unhashable type: 'list'"

\* rule_func(statements) when it returns.
Apply(rule_func, stmts) ==
  CASE rule_func = "presence_absence_conflict" ->
         presence_absence_conflict(stmts)
    [] rule_func = "numeric_amount_mismatch" -> numeric_amount_mismatch(stmts)
    [] rule_func = "status_change_inconsistency" ->
         status_change_inconsistency(stmts)
    [] rule_func = "location_contradiction" -> location_contradiction(stmts)

\* ------------------------------------------------- analyzer/__init__.py
\* The dict evaluate appends for a rule that raised: the keys
\* contradiction_id, type, error, rule and description, and no other.
EngineError(rule_func) ==
  [contradiction_id |-> ErrCid(rule_func), type |-> "__engine_error__",
   rule |-> rule_func, error |-> ErrorMessage(rule_func),
   statement_a |-> <<>>, statement_b |-> <<>>, statements |-> <<>>,
   description |->
     <<"Rule engine error in", rule_func, ErrorMessage(rule_func)>>,
   severity |-> Absent, confidence |-> NoConfidence, score |-> NoScore]

\* One iteration of the loop of evaluate: the try/except around one rule.
evaluate_step_reset(acc, rule_func, stmts) ==
  IF Raises(rule_func, stmts)
  THEN <<EngineError(rule_func)>>
  ELSE acc \o Apply(rule_func, stmts)
evaluate_step(acc, rule_func, stmts) ==
  IF Raises(rule_func, stmts)
  THEN Append(acc, EngineError(rule_func))
  ELSE acc \o Apply(rule_func, stmts)

\* Does the exception of rule_func leave evaluate?
Escapes(rule_func, stmts) ==
  Raises(rule_func, stmts) /\ ~evaluate_catches(ExceptionOf(rule_func))

\* evaluate(statements) with the rule list rule_funcs, when no exception
\* leaves it: the loop over the list read at line 16.
RECURSIVE evaluate(_, _)
evaluate(rule_funcs, stmts) ==
  IF Len(rule_funcs) = 0 THEN <<>>
  ELSE evaluate_step(evaluate(SubSeq(rule_funcs, 1, Len(rule_funcs) - 1),
                              stmts),
                     rule_funcs[Len(rule_funcs)], stmts)

\* ---------------------------------------------------- analyzer/rules.py
\* The functions rules_basic.py decorates with @rule, in definition order.
rules_basic ==
  <<"rules_basic.presence_absence_conflict",
    "rules_basic.event_date_disagreement",
    "rules_basic.numeric_amount_mismatch">>

\* rule(func): _rules.append(func)
rule(rules, func) == Append(rules, func)

\* iter_rules(): return _rules
iter_rules(rules) == rules

\* clear_rules(): _rules = []
clear_rules == <<>>

\* ------------------------------------------------ analyzer/rules_basic.py
\* A statement of the shape rules_basic.py reads: type, event_id, party,
\* present ("True", "False" or absent), date.
BasicStmt(id, type, event_id, party, present, date) ==
  [id |-> id, event |-> Absent, party |-> party, case |-> Absent,
   person |-> Absent, location |-> Absent, status |-> Absent,
   content |-> <<Absent>>, type |-> type, event_id |-> event_id,
   present |-> present, date |-> date]

BasicPool ==
  { BasicStmt(<<"p1">>, "PRESENCE", "E", "P", "True", Absent),
    BasicStmt(<<"p2">>, "PRESENCE", "E", "P", "False", Absent),
    BasicStmt(<<"p3">>, "PRESENCE", "E", Absent, "True", Absent),
    BasicStmt(<<"d1">>, "EVENT_DATE", "X", Absent, Absent, "2025-01-01"),
    BasicStmt(<<"d2">>, "EVENT_DATE", "X", Absent, Absent, "2025-01-05"),
    BasicStmt(<<"d3">>, "EVENT_DATE", "X", Absent, Absent, "2025-01-06"),
    BasicStmt(<<"d4">>, "EVENT_DATE", "X", Absent, Absent, "2025-01-01"),
    BasicStmt(<<"d5">>, "EVENT_DATE", "Y", Absent, Absent, "2025-01-05"),
    BasicStmt(<<"d6">>, "EVENT_DATE", "X", Absent, Absent, Absent) }

\* The dataclass Contradiction of rules.py.
Contradiction(rule_name, severity, key, rationale, a, b) ==
  [rule |-> rule_name, severity |-> severity, key |-> key,
   rationale |-> rationale, a |-> a, b |-> b]

\* rules_basic.presence_absence_conflict(ctx), on ctx.statements.
basic_presence_absence_conflict(stmts) ==
  LET usable ==
        SelectSeq(stmts, LAMBDA st :
                    /\ st.type = "PRESENCE"
                    /\ Truthy(st.event_id) /\ Truthy(st.party)
                    /\ st.present # Absent)
      keyOf(st) == <<st.event_id, ":", st.party>>
      keys == Keys([k \in 1..Len(usable) |-> keyOf(usable[k])])
      group(key, present) ==
        SelectSeq(usable, LAMBDA st : keyOf(st) = key /\ st.present = present)
      forKey(key) ==
        IF Len(group(key, "True")) > 0 /\ Len(group(key, "False")) > 0
        THEN << Contradiction("presence_absence_conflict", "medium", key,
                              <<"Party marked both present and absent for",
                                key>>,
                              group(key, "True")[1], group(key, "False")[1]) >>
        ELSE <<>>
  IN  Flatten([k \in 1..Len(keys) |-> forKey(keys[k])])

\* rules_basic.event_date_disagreement(ctx), on ctx.statements. The
\* variant compares the statements instead of the distinct dates.
event_date_disagreement_by_statement(stmts) ==
  LET usable ==
        SelectSeq(stmts, LAMBDA st :
                    /\ st.type = "EVENT_DATE"
                    /\ Truthy(st.event_id) /\ Truthy(st.date))
      events == Keys([k \in 1..Len(usable) |-> usable[k].event_id])
      ofEvent(e) == SelectSeq(usable, LAMBDA st : st.event_id = e)
      forEvent(e) ==
        LET ab == UpperPairs(ofEvent(e))
        IN  Flatten([q \in 1..Len(ab) |->
              IF ab[q][1].date # ab[q][2].date
              THEN << Contradiction("event_date_disagreement", "high", e,
                                    <<ab[q][1].date, "vs", ab[q][2].date>>,
                                    ab[q][1], ab[q][2]) >>
              ELSE <<>>])
  IN  Flatten([k \in 1..Len(events) |-> forEvent(events[k])])
event_date_disagreement(stmts) ==
  LET usable ==
        SelectSeq(stmts, LAMBDA st :
                    /\ st.type = "EVENT_DATE"
                    /\ Truthy(st.event_id) /\ Truthy(st.date))
      events == Keys([k \in 1..Len(usable) |-> usable[k].event_id])
      ofEvent(e) == SelectSeq(usable, LAMBDA st : st.event_id = e)
      dates(e) == Keys([k \in 1..Len(ofEvent(e)) |-> ofEvent(e)[k].date])
      first(e, d) == SelectSeq(ofEvent(e), LAMBDA st : st.date = d)[1]
      forEvent(e) ==
        IF Len(dates(e)) <= 1 THEN <<>>
        ELSE LET dd == UpperPairs(dates(e))
             IN  [q \in 1..Len(dd) |->
                   Contradiction("event_date_disagreement", "high", e,
                                 <<dd[q][1], "vs", dd[q][2]>>,
                                 first(e, dd[q][1]), first(e, dd[q][2]))]
  IN  Flatten([k \in 1..Len(events) |-> forEvent(events[k])])

\* The rule functions of rules_basic.py that are called below.
CalledRules == {"presence_absence_conflict", "event_date_disagreement"}

ApplyBasic(rule_name, stmts) ==
  IF rule_name = "presence_absence_conflict"
  THEN basic_presence_absence_conflict(stmts)
  ELSE event_date_disagreement(stmts)

\* Order of the rule names under sorted(): alphabetical; "|" (code point 124)
\* sorts after every letter.
NameOrder ==
  <<"date_range_overlap_conflict", "event_date_disagreement",
    "location_contradiction", "numeric_amount_mismatch",
    "presence_absence_conflict", "role_responsibility_conflict",
    "status_change_inconsistency", "|">>
NameCode(n) == CHOOSE k \in 1..Len(NameOrder) : NameOrder[k] = n
NameBase == Len(NameOrder) + 1

\* sorted(names)
RECURSIVE SortNames(_)
SortNames(names) ==
  IF Len(names) <= 1 THEN names
  ELSE LET front == SortNames(SubSeq(names, 1, Len(names) - 1))
           x == names[Len(names)]
           n == Cardinality({k \in 1..Len(front) :
                               NameCode(front[k]) <= NameCode(x)})
       IN  SubSeq(front, 1, n) \o <<x>> \o SubSeq(front, n + 1, Len(front))

\* "|".join(names)
RECURSIVE JoinBar(_)
JoinBar(names) ==
  IF Len(names) = 0 THEN <<>>
  ELSE IF Len(names) = 1 THEN names
  ELSE <<Head(names), "|">> \o JoinBar(Tail(names))

\* hashlib.sha1(combined.encode()).hexdigest()[:12]
sha1_12(s) == Digest([k \in 1..Len(s) |-> NameCode(s[k])], NameBase)

get_rules_fingerprint_unsorted(rule_funcs) == sha1_12(JoinBar(rule_funcs))
get_rules_fingerprint(rule_funcs) == sha1_12(JoinBar(SortNames(rule_funcs)))

\* engine_errors = [c for c in contradictions if c['type'] == '__engine_error__']
engine_errors(cands) ==
  SelectSeq(cands, LAMBDA c : c.type = "__engine_error__")

\* ----------------------------- test_complete_pipeline.py: dedup/score/sort
AddrKey(addr) == [kind |-> "addr", h |-> addr, rule |-> ""]

\* cid = c.get("contradiction_id") or id(c)
DedupKey(c, addr) ==
  IF c.contradiction_id.kind # "none" THEN c.contradiction_id
  ELSE AddrKey(addr)

\* Positions of the candidates id(c) is taken of.
IdLess(cands) == {k \in 1..Len(cands) : cands[k].contradiction_id.kind = "none"}

\* id(c) of distinct live objects: any injective choice of addresses.
AddrChoices(cands) ==
  {f \in [IdLess(cands) -> 1..NumAddrs] :
     \A x, y \in IdLess(cands) : x # y => f[x] # f[y]}

\* Variants of the dedup: first-seen-wins, and values listed in key order.
DedupFirstWins(cands, addr) ==
  LET key(k) == DedupKey(cands[k], IF k \in DOMAIN addr THEN addr[k] ELSE 0)
      ks == Keys([k \in 1..Len(cands) |-> key(k)])
      first(x) == CHOOSE k \in 1..Len(cands) :
                    /\ key(k) = x
                    /\ \A m \in 1..Len(cands) : key(m) = x => m >= k
  IN  [n \in 1..Len(ks) |-> cands[first(ks[n])]]

DedupKeyOrder(cands, addr) ==
  LET key(k) == DedupKey(cands[k], IF k \in DOMAIN addr THEN addr[k] ELSE 0)
      ks == Keys([k \in 1..Len(cands) |-> key(k)])
      last(x) == CHOOSE k \in 1..Len(cands) :
                   /\ key(k) = x
                   /\ \A m \in 1..Len(cands) : key(m) = x => m <= k
      rank(n) == 1 + Cardinality({m \in 1..Len(ks) :
                                    \/ ks[m].h < ks[n].h
                                    \/ ks[m].h = ks[n].h /\ m < n})
      pos(r) == CHOOSE n \in 1..Len(ks) : rank(n) = r
  IN  [r \in 1..Len(ks) |-> cands[last(ks[pos(r)])]]

\* uniq = {}; for c in contradictions: uniq[cid] = c; list(uniq.values()):
\* a key keeps the position of its first insertion and the value of its last.
Dedup(cands, addr) ==
  LET key(k) == DedupKey(cands[k], IF k \in DOMAIN addr THEN addr[k] ELSE 0)
      ks == Keys([k \in 1..Len(cands) |-> key(k)])
      last(x) == CHOOSE k \in 1..Len(cands) :
                   /\ key(k) = x
                   /\ \A m \in 1..Len(cands) : key(m) = x => m <= k
  IN  [n \in 1..Len(ks) |-> cands[last(ks[n])]]

FixedScore == 75

\* for item in items: item['score'] = 75. The item is the dict the rule
\* built; the statements it lists are the caller's dicts, held by reference.
\* The variant writes the key through to the statements of the item.
ScoreAllThrough(its) ==
  LET scored(st) ==
        [f \in DOMAIN st \cup {"score"} |->
           IF f = "score" THEN FixedScore ELSE st[f]]
      through(sts) == [k \in 1..Len(sts) |-> scored(sts[k])]
  IN  [k \in 1..Len(its) |->
        [its[k] EXCEPT !.score = FixedScore,
                       !.statement_a = through(@),
                       !.statement_b = through(@),
                       !.statements = through(@)]]
ScoreAll(its) == [k \in 1..Len(its) |-> [its[k] EXCEPT !.score = FixedScore]]

\* x.get('score', 0)
SortKey(x) == IF x.score = NoScore THEN 0 ELSE x.score

\* items.sort(key=..., reverse=True): stable, descending by key only.
RECURSIVE SortDesc(_)
SortDesc(its) ==
  IF Len(its) <= 1 THEN its
  ELSE LET front == SortDesc(SubSeq(its, 1, Len(its) - 1))
           x == its[Len(its)]
           n == Cardinality({k \in 1..Len(front) :
                               SortKey(front[k]) >= SortKey(x)})
       IN  SubSeq(front, 1, n) \o <<x>> \o SubSeq(front, n + 1, Len(front))

\* row[field] = item.get(field, '') for the CSV's contradiction_id column.
EmptyText == [kind |-> "text", h |-> 0, rule |-> ""]
CsvCid(item) ==
  IF item.contradiction_id.kind = "none" THEN EmptyText
  ELSE item.contradiction_id

CsvRows(its) ==
  [k \in 1..Len(its) |->
    [contradiction_id |-> CsvCid(its[k]), type |-> its[k].type,
     score |-> its[k].score, description |-> its[k].description]]

\* ------------------------------------------------------ scripts/scoding.py
\* Weights and confidences are held in hundredths, severity multipliers in
\* tenths, scores in tenths.

\* The entries of RuleWeights._load_default_weights the scorer looks up.
default_weights ==
  [timeline_inconsistency |-> 70, name_alteration |-> 80,
   content_modification |-> 75, cross_document_inconsistency |-> 80]

\* data['weights'] of a weights file that sets one weight and no other.
file_weights == [cross_document_inconsistency |-> 100]

WeightFiles == {"<missing>", "<malformed>", "rule_weights.json"}

\* RuleWeights.load_weights: the defaults unless the file exists and parses.
load_weights(file) ==
  IF file = "rule_weights.json" THEN file_weights ELSE default_weights

\* self.weights.get(category, {}).get(rule, default)
get_weight(weights, rule_name, default) ==
  IF rule_name \in DOMAIN weights THEN weights[rule_name] ELSE default

severity_multipliers == [low |-> 8, medium |-> 10, high |-> 12, critical |-> 15]

\* severity_multipliers.get(contradiction.get('severity', 'medium'), 1.0)
severity_multiplier(c) ==
  IF c.severity \in DOMAIN severity_multipliers
  THEN severity_multipliers[c.severity]
  ELSE severity_multipliers["medium"]

\* contradiction.get('confidence', 0.5)
confidence_of(c) == IF c.confidence = NoConfidence THEN 50 ELSE c.confidence

\* The weight the type of the contradiction selects.
weight_of(c, weights) ==
  IF c.type \in {"timeline_inconsistency", "temporal_anomaly"}
  THEN get_weight(weights, "timeline_inconsistency", 70)
  ELSE IF c.type = "name_alteration"
  THEN get_weight(weights, "name_alteration", 80)
  ELSE IF c.type = "content_modification"
  THEN get_weight(weights, "content_modification", 75)
  ELSE get_weight(weights, "cross_document_inconsistency", 80)

\* round(n / d, 1) of a score n / d given in tenths: to the nearest tenth,
\* a tie to the even one (the float product of the source can fall to
\* either side of a tie; the inputs below produce no tie).
RoundHalfEven(n, d) ==
  LET q == n \div d
      r == n % d
  IN  IF 2 * r < d THEN q
      ELSE IF 2 * r > d THEN q + 1
      ELSE IF q % 2 = 0 THEN q ELSE q + 1

\* round(confidence * weight * severity_multiplier * 100, 1), in tenths.
weighted_score(c, weights) ==
  RoundHalfEven(confidence_of(c) * weight_of(c, weights)
                  * severity_multiplier(c), 100)

\* confidence * weight raises TypeError when the confidence is None: the
\* default 0.5 of .get stands in for an absent key only.
score_raises(c) == c.confidence = NullConfidence

\* result = contradiction.copy(); result.update({...})
score_single_contradiction(c, weights) ==
  [c EXCEPT !.score = weighted_score(c, weights)]

\* ------------------------------------------------- analyzer/scoding.py
\* The content scorer. A text is a sequence of words; scores are kept in
\* ten-thousandths (10.0 is 100000), confidences in hundredths. Of the
\* keywords and patterns of the scoring rules, those are kept that match a
\* word of the vocabulary of TextPool.
scoring_rules ==
  [S1 |-> [score_range |-> <<90000, 100000>>, weight |-> 10,
           keywords |-> {"perjury"}, patterns |-> {"perjury"},
           description |-> "Critical evidence - smoking gun documents"],
   S2 |-> [score_range |-> <<70000, 89000>>, weight |-> 8,
           keywords |-> {"misconduct"}, patterns |-> {"misconduct"},
           description |->
             "High-value evidence - strong supporting material"],
   S3 |-> [score_range |-> <<50000, 69000>>, weight |-> 6,
           keywords |-> {"incident"}, patterns |-> {"incident"},
           description |-> "Medium-value evidence - contextual support"],
   S4 |-> [score_range |-> <<30000, 49000>>, weight |-> 4,
           keywords |-> {"routine"}, patterns |-> {"routine"},
           description |-> "Low-value evidence - background information"],
   S5 |-> [score_range |-> <<10000, 29000>>, weight |-> 2,
           keywords |-> {"memo"}, patterns |-> {},
           description |-> "Administrative/procedural documents"]]

\* The order in which self.scoring_rules.items() yields the rules.
SCodes == <<"S1", "S2", "S3", "S4", "S5">>

Min(a, b) == IF a <= b THEN a ELSE b

Sum5(f) == f["S1"] + f["S2"] + f["S3"] + f["S4"] + f["S5"]

\* The number of words of the text that are in the set.
Count(text, words) == Len(SelectSeq(text, LAMBDA w : w \in words))

\* not text.strip()
IsBlank(text) == \A k \in 1..Len(text) : text[k] = " "

\* score_range[0] + (score_range[1] - score_range[0]) * frequency_factor
band_score(rules, matches, cap) ==
  rules.score_range[1]
    + ((rules.score_range[2] - rules.score_range[1]) * Min(matches, cap))
        \div cap

\* The weighted mean of the band scores of the rules that match.
matched_mean(matches, cap) ==
  LET total_score ==
        Sum5([c \in DOMAIN scoring_rules |->
                IF matches[c] > 0
                THEN band_score(scoring_rules[c], matches[c], cap)
                       * scoring_rules[c].weight
                ELSE 0])
      total_weight ==
        Sum5([c \in DOMAIN scoring_rules |->
                IF matches[c] > 0 THEN scoring_rules[c].weight ELSE 0])
  IN  IF total_weight > 0 THEN total_score \div total_weight ELSE 0

_calculate_keyword_score(text) ==
  matched_mean([c \in DOMAIN scoring_rules |->
                  Count(text, scoring_rules[c].keywords)], 10)

_calculate_pattern_score(text) ==
  matched_mean([c \in DOMAIN scoring_rules |->
                  Count(text, scoring_rules[c].patterns)], 5)

\* config["legal_significance_factors"]
legal_significance_factors ==
  [criminal_conduct |-> 45000, policy_violations |-> 30000,
   administrative_matters |-> 10000]

_calculate_legal_significance(text) ==
  LET criminal == Count(text, {"criminal", "perjury"}) > 0
      policy == Count(text, {"misconduct"}) > 0
      total_score ==
        (IF criminal THEN legal_significance_factors.criminal_conduct ELSE 0)
          + (IF policy THEN legal_significance_factors.policy_violations
             ELSE 0)
      factor_count == (IF criminal THEN 1 ELSE 0) + (IF policy THEN 1 ELSE 0)
      average_significance ==
        IF factor_count = 0
        THEN legal_significance_factors.administrative_matters
        ELSE total_score \div factor_count
  IN  Min(average_significance * 2, 100000)

\* metadata.get("creation_time") on a metadata that is true and no dict.
urgency_raises(metadata) == metadata \notin {Absent, "{}"}

\* The metadata of the model hold no creation_time.
_calculate_urgency_score(text, metadata) ==
  Min(Min(Count(text, {"urgent"}) * 20000, 100000), 100000)

\* keyword_score * 0.4 + pattern_score * 0.3 + legal_significance * 0.2
\*   + urgency_score * 0.1
content_score(text, metadata) ==
  (_calculate_keyword_score(text) * 4 + _calculate_pattern_score(text) * 3
     + _calculate_legal_significance(text) * 2
     + _calculate_urgency_score(text, metadata)) \div 10

\* The first rule, in the order of the dict, whose range holds the score;
\* S5 when no range holds it.
RECURSIVE first_in_range(_, _)
first_in_range(codes, score) ==
  IF codes = <<>> THEN "S5"
  ELSE IF scoring_rules[Head(codes)].score_range[1] <= score
            /\ score <= scoring_rules[Head(codes)].score_range[2]
       THEN Head(codes)
       ELSE first_in_range(Tail(codes), score)

_determine_s_code(score) == first_in_range(SCodes, score)

_calculate_confidence(text, score) ==
  LET word_count == Len(SelectSeq(text, LAMBDA w : w # " "))
      base_confidence ==
        IF word_count < 10 THEN 30
        ELSE IF word_count < 50 THEN 60
        ELSE IF word_count < 200 THEN 80 ELSE 90
      confidence_adjustment ==
        IF score >= 90000 \/ score <= 20000 THEN 20
        ELSE IF score >= 70000 \/ score <= 40000 THEN 10 ELSE 0
  IN  Min(base_confidence + confidence_adjustment, 100)

\* The keys of a result that the batch reads; 'error' is absent unless the
\* scoring raised.
ScoreResult(doc_id, s_code, numeric_score, confidence, description, error) ==
  [document_id |-> doc_id, s_code |-> s_code,
   numeric_score |-> numeric_score, confidence |-> confidence,
   description |-> description, error |-> error]

_empty_score ==
  ScoreResult(Absent, "S5", 0, 0, "Empty or invalid document", Absent)

\* text.strip() on None, or the urgency score on a metadata that is no dict.
score_document_raises(text, metadata) ==
  \/ text = Absent
  \/ ~IsBlank(text) /\ urgency_raises(metadata)

\* score_document when it returns; numeric_score is round(score, 2), kept
\* in hundredths.
score_document(text, metadata) ==
  IF IsBlank(text) THEN _empty_score
  ELSE LET score == content_score(text, metadata)
           s_code == _determine_s_code(score)
       IN  ScoreResult(Absent, s_code, RoundHalfEven(score, 100),
                       _calculate_confidence(text, score),
                       scoring_rules[s_code].description, Absent)

\* score_batch, lines 461-474: one pass of the loop body.
score_batch_step_skip(acc, doc) ==
  IF score_document_raises(doc[2], doc[3]) THEN acc
  ELSE Append(acc, [score_document(doc[2], doc[3])
                      EXCEPT !.document_id = doc[1]])
score_batch_step(acc, doc) ==
  IF score_document_raises(doc[2], doc[3])
  THEN Append(acc, ScoreResult(doc[1], "S5", 0, 0, Absent,
                               "AttributeError"))
  ELSE Append(acc, [score_document(doc[2], doc[3])
                      EXCEPT !.document_id = doc[1]])

\* ---------------------------------------------------- analyzer/rule_meta.py
\* RULE_META[rule]['base_weight']
RULE_META ==
  [event_date_disagreement |-> 7, presence_absence_conflict |-> 5,
   numeric_amount_mismatch |-> 6, status_flip_without_transition |-> 8,
   location_mismatch |-> 5]

SEVERITY_BASE == [low |-> 1, medium |-> 2, high |-> 3]

\* --------------------------------------------------------------- the runs
VARIABLES statements, registry, pc, rule_functions, i, contradictions,
          items, csv, runs, _rules, weights, scored_contradictions,
          total_score, rule_result, elapsed, documents, results,
          weights_file, last_modified, last_run, now, watch_log

vars == <<statements, registry, pc, rule_functions, i, contradictions,
          items, csv, runs, _rules, weights, scored_contradictions,
          total_score, rule_result, elapsed, documents, results,
          weights_file, last_modified, last_run, now, watch_log>>

\* The time the calls of the rules have taken so far.
timing_vars == <<elapsed>>

\* The batch of the content scorer of analyzer/scoding.py.
batch_vars == <<documents, results>>

\* The watch mode of scripts/scoding.py.
watch_vars == <<weights_file, last_modified, last_run, now, watch_log>>

\* The state of the scorer of scripts/scoding.py.
scorer_vars == <<weights, scored_contradictions, total_score>>

\* What a direct call of a rule function of rules_basic.py returned.
NoResult == [rule |-> "", found |-> <<>>]

\* No call of a rule has taken any time yet.
InitTiming == elapsed = [r \in AlwaysDefined \cup MaybeDefined |-> 0]

\* No batch is being scored.
InitBatch ==
  /\ documents = <<>>
  /\ results = <<>>

\* What the current iteration of the watch loop logged last, and the
\* exception raised in it.
NoLog == [message |-> "", raised |-> ""]

\* The weights file as first written; no watch loop runs.
InitWatch ==
  /\ weights_file = [content |-> "rule_weights.json", mtime |-> 1]
  /\ last_modified = 0
  /\ last_run = 0
  /\ now = 0
  /\ watch_log = NoLog

\* Statement lists of at most MaxStmts distinct statements of the pool.
StmtLists ==
  UNION {{s \in [1..n -> Pool] : \A x, y \in 1..n : x # y => s[x] # s[y]}
           : n \in 0..MaxStmts}

Reorderings(seq) ==
  {[k \in 1..Len(seq) |-> seq[p[k]]] : p \in Permutations(1..Len(seq))}

Init ==
  /\ statements \in StmtLists
  /\ \E opt \in SUBSET MaybeDefined :
       registry = get_all_rule_functions(AlwaysDefined \cup opt)
  /\ pc = "Ingest"
  /\ rule_functions = <<>>
  /\ i = 1
  /\ contradictions = <<>>
  /\ items = <<>>
  /\ csv = <<>>
  /\ runs = <<>>
  /\ _rules = <<>>
  /\ weights = default_weights
  /\ scored_contradictions = <<>>
  /\ total_score = 0
  /\ rule_result = NoResult
  /\ InitTiming
  /\ InitBatch
  /\ InitWatch

\* evaluate, lines 13-16. The variant iterates the live list of rules.py.
Ingest_iter_rules ==
  /\ pc = "Ingest"
  /\ rule_functions' = iter_rules(_rules)
  /\ contradictions' = <<>>
  /\ i' = 1
  /\ pc' = IF Len(iter_rules(_rules)) = 0 THEN "Dedup" ELSE "RuleApply"
  /\ UNCHANGED <<statements, registry, items, csv, runs, _rules>>
  /\ UNCHANGED scorer_vars
  /\ UNCHANGED rule_result
  /\ UNCHANGED timing_vars
  /\ UNCHANGED batch_vars
  /\ UNCHANGED watch_vars
Ingest ==
  /\ pc = "Ingest"
  /\ rule_functions' = registry
  /\ contradictions' = <<>>
  /\ i' = 1
  /\ pc' = IF Len(registry) = 0 THEN "Dedup" ELSE "RuleApply"
  /\ UNCHANGED <<statements, registry, items, csv, runs, _rules>>
  /\ UNCHANGED scorer_vars
  /\ UNCHANGED rule_result
  /\ UNCHANGED timing_vars
  /\ UNCHANGED batch_vars
  /\ UNCHANGED watch_vars

\* evaluate, lines 19-34: one pass of the loop body.
RuleApply ==
  /\ pc = "RuleApply"
  /\ i <= Len(rule_functions)
  /\ IF Escapes(rule_functions[i], statements)
     THEN /\ pc' = "Escaped"
          /\ UNCHANGED <<contradictions, i>>
     ELSE /\ contradictions' =
               evaluate_step(contradictions, rule_functions[i], statements)
          /\ i' = i + 1
          /\ pc' = IF i = Len(rule_functions) THEN "Dedup" ELSE "RuleApply"
  /\ UNCHANGED <<statements, registry, rule_functions, items, csv, runs,
                 _rules>>
  /\ UNCHANGED scorer_vars
  /\ UNCHANGED rule_result
  /\ UNCHANGED timing_vars
  /\ UNCHANGED batch_vars
  /\ UNCHANGED watch_vars

\* test_file_outputs, lines 115-120.
DedupStage ==
  /\ pc = "Dedup"
  /\ \E addr \in AddrChoices(contradictions) :
       items' = Dedup(contradictions, addr)
  /\ pc' = "Score"
  /\ UNCHANGED <<statements, registry, rule_functions, i, contradictions,
                 csv, runs, _rules>>
  /\ UNCHANGED scorer_vars
  /\ UNCHANGED rule_result
  /\ UNCHANGED timing_vars
  /\ UNCHANGED batch_vars
  /\ UNCHANGED watch_vars

\* test_file_outputs, lines 122-124.
ScoreStage ==
  /\ pc = "Score"
  /\ items' = ScoreAll(items)
  /\ pc' = "Sort"
  /\ UNCHANGED <<statements, registry, rule_functions, i, contradictions,
                 csv, runs, _rules>>
  /\ UNCHANGED scorer_vars
  /\ UNCHANGED rule_result
  /\ UNCHANGED timing_vars
  /\ UNCHANGED batch_vars
  /\ UNCHANGED watch_vars

\* test_file_outputs, line 126.
SortStage ==
  /\ pc = "Sort"
  /\ items' = SortDesc(items)
  /\ pc' = "Emit"
  /\ UNCHANGED <<statements, registry, rule_functions, i, contradictions,
                 csv, runs, _rules>>
  /\ UNCHANGED scorer_vars
  /\ UNCHANGED rule_result
  /\ UNCHANGED timing_vars
  /\ UNCHANGED batch_vars
  /\ UNCHANGED watch_vars

\* test_file_outputs, lines 128-149: the scored JSON and the CSV.
Emit ==
  /\ pc = "Emit"
  /\ csv' = CsvRows(items)
  /\ runs' = Append(runs,
                    [rule_functions |-> rule_functions,
                     contradictions |-> contradictions,
                     items |-> items,
                     csv |-> CsvRows(items),
                     rules_fingerprint |-> get_rules_fingerprint(registry),
                     num_errors |-> Len(engine_errors(contradictions))])
  /\ pc' = "Done"
  /\ UNCHANGED <<statements, registry, rule_functions, i, contradictions,
                 items, _rules>>
  /\ UNCHANGED scorer_vars
  /\ UNCHANGED rule_result
  /\ UNCHANGED timing_vars
  /\ UNCHANGED batch_vars
  /\ UNCHANGED watch_vars

\* The pipeline is run again on the same statements, by a process in which
\* other optional rule modules may have imported and the rules may be listed
\* in another order.
Rerun ==
  /\ pc = "Done"
  /\ Len(runs) = 1
  /\ \E opt \in SUBSET MaybeDefined :
       registry' \in Reorderings(get_all_rule_functions(AlwaysDefined \cup opt))
  /\ pc' = "Ingest"
  /\ UNCHANGED <<statements, rule_functions, i, contradictions, items, csv,
                 runs, _rules>>
  /\ UNCHANGED scorer_vars
  /\ UNCHANGED rule_result
  /\ UNCHANGED timing_vars
  /\ UNCHANGED batch_vars
  /\ UNCHANGED watch_vars

\* A run is between its first step and its last.
InProgress == pc \in {"RuleApply", "Dedup", "Score", "Sort", "Emit"}

\* rules.py, lines 25-28: a rule is registered while a run is in progress.
RegisterRule ==
  /\ InProgress
  /\ Len(_rules) < MaxRegistered
  /\ \E k \in 1..Len(rules_basic) : _rules' = rule(_rules, rules_basic[k])
  /\ UNCHANGED <<statements, registry, pc, rule_functions, i, contradictions,
                 items, csv, runs>>
  /\ UNCHANGED scorer_vars
  /\ UNCHANGED rule_result
  /\ UNCHANGED timing_vars
  /\ UNCHANGED batch_vars
  /\ UNCHANGED watch_vars

\* rules.py, lines 34-37: the rules are cleared while a run is in progress.
ClearRules ==
  /\ InProgress
  /\ iter_rules(_rules) # clear_rules
  /\ _rules' = clear_rules
  /\ UNCHANGED <<statements, registry, pc, rule_functions, i, contradictions,
                 items, csv, runs>>
  /\ UNCHANGED scorer_vars
  /\ UNCHANGED rule_result
  /\ UNCHANGED timing_vars
  /\ UNCHANGED batch_vars
  /\ UNCHANGED watch_vars

Next ==
  \/ Ingest
  \/ RuleApply
  \/ DedupStage
  \/ ScoreStage
  \/ SortStage
  \/ Emit
  \/ Rerun

Spec == Init /\ [][Next]_vars

\* ------------------------------------- scripts/scoding.py: run_analysis
\* The records of a contradictions file: a type, with or without a
\* confidence and a severity.
ScoredTypes ==
  {"__engine_error__", "presence_absence_conflict", "timeline_inconsistency"}
Confidences == {NoConfidence, NullConfidence, 80, 90}
Severities == {Absent, "low", "high", "critical"}

FileRecord(type, confidence, severity) ==
  [Candidate(NoCid, type, "", <<>>, <<>>, <<>>, <<>>, confidence)
     EXCEPT !.severity = severity]

FileRecords ==
  {FileRecord(t, c, v) : t \in ScoredTypes, c \in Confidences,
                         v \in Severities}

InitScoring ==
  /\ statements = <<>>
  /\ registry = get_all_rule_functions(AlwaysDefined)
  /\ pc = "LoadWeights"
  /\ rule_functions = <<>>
  /\ i = 1
  /\ contradictions \in UNION {[1..n -> FileRecords] : n \in 0..MaxScored}
  /\ items = <<>>
  /\ csv = <<>>
  /\ runs = <<>>
  /\ _rules = <<>>
  /\ weights = <<>>
  /\ scored_contradictions = <<>>
  /\ total_score = 0
  /\ rule_result = NoResult
  /\ InitTiming
  /\ InitBatch
  /\ InitWatch

\* run_analysis, line 249: RuleWeights(weights_path).
LoadWeights ==
  /\ pc = "LoadWeights"
  /\ \E file \in WeightFiles : weights' = load_weights(file)
  /\ i' = 1
  /\ pc' = "ScoreLoop"
  /\ UNCHANGED <<statements, registry, rule_functions, contradictions, items,
                 csv, runs, _rules, scored_contradictions, total_score,
                 rule_result>>
  /\ UNCHANGED timing_vars
  /\ UNCHANGED batch_vars
  /\ UNCHANGED watch_vars

\* score_contradictions, lines 130-133: one pass of the loop body.
\* Nothing between _score_single_contradiction and the caller of
\* run_analysis catches: an exception of the scorer ends the scoring.
ScoreOne ==
  /\ pc = "ScoreLoop"
  /\ i <= Len(contradictions)
  /\ IF score_raises(contradictions[i])
     THEN /\ pc' = "ScoringFailed"
          /\ UNCHANGED <<scored_contradictions, total_score, i>>
     ELSE /\ scored_contradictions' =
               Append(scored_contradictions,
                      score_single_contradiction(contradictions[i], weights))
          /\ total_score' =
               total_score + weighted_score(contradictions[i], weights)
          /\ i' = i + 1
          /\ pc' = pc
  /\ UNCHANGED <<statements, registry, rule_functions, contradictions,
                 items, csv, runs, _rules, weights, rule_result>>
  /\ UNCHANGED timing_vars
  /\ UNCHANGED batch_vars
  /\ UNCHANGED watch_vars

\* score_contradictions, lines 144-159: the scored list is returned.
ScoreReturn ==
  /\ pc = "ScoreLoop"
  /\ i > Len(contradictions)
  /\ pc' = "Scored"
  /\ UNCHANGED <<statements, registry, rule_functions, i, contradictions,
                 items, csv, runs, _rules>>
  /\ UNCHANGED scorer_vars
  /\ UNCHANGED rule_result
  /\ UNCHANGED timing_vars
  /\ UNCHANGED batch_vars
  /\ UNCHANGED watch_vars

NextScoring ==
  \/ LoadWeights
  \/ ScoreOne
  \/ ScoreReturn

SpecScoring == InitScoring /\ [][NextScoring]_vars

\* ------------------------------------------- contradiction_id on its own
\* Statements that carry an id and nothing else; two of the ids hold the
\* separator "::" of the hash input.
IdPool ==
  { Stmt(<<"a">>, Absent, Absent, Absent, Absent, <<Absent>>),
    Stmt(<<"b">>, Absent, Absent, Absent, Absent, <<Absent>>),
    Stmt(<<"a", ":", ":", "b">>, Absent, Absent, Absent, Absent, <<Absent>>),
    Stmt(<<"a", ":", ":", "a">>, Absent, Absent, Absent, Absent, <<Absent>>) }

\* The pairs contradiction_id is called on: those in which at most one id
\* holds a separator.
IdPairs ==
  {p \in IdPool \X IdPool : Len(p[1].id) = 1 \/ Len(p[2].id) = 1}

InitId ==
  /\ statements = <<>>
  /\ registry = get_all_rule_functions(AlwaysDefined)
  /\ pc = "IdCalls"
  /\ rule_functions = <<>>
  /\ i = 1
  /\ contradictions = <<>>
  /\ items = <<>>
  /\ csv = <<>>
  /\ runs = <<>>
  /\ _rules = <<>>
  /\ weights = default_weights
  /\ scored_contradictions = <<>>
  /\ total_score = 0
  /\ rule_result = [rule |-> "contradiction_id", found |-> <<>>]
  /\ InitTiming
  /\ InitBatch
  /\ InitWatch

\* contradiction_id(statement_a, statement_b); the ids returned are kept.
CallContradictionId ==
  /\ pc = "IdCalls"
  /\ Len(rule_result.found) < MaxIdCalls
  /\ \E p \in IdPairs :
       rule_result' =
         [rule_result EXCEPT !.found =
            Append(@, [a |-> p[1], b |-> p[2],
                       id |-> contradiction_id(p[1], p[2])])]
  /\ UNCHANGED <<statements, registry, pc, rule_functions, i, contradictions,
                 items, csv, runs, _rules>>
  /\ UNCHANGED scorer_vars
  /\ UNCHANGED timing_vars
  /\ UNCHANGED batch_vars
  /\ UNCHANGED watch_vars

NextId == CallContradictionId

SpecId == InitId /\ [][NextId]_vars

\* ------------------------------- statements of the rules_basic.py shape
\* Either evaluate runs on the statements, or a rule function of
\* rules_basic.py is called on RuleContext(doc_id, statements).
InitBasic ==
  /\ statements \in
       UNION {{st \in [1..n -> BasicPool] :
                 \A x, y \in 1..n : x # y => st[x] # st[y]}
                : n \in 0..MaxBasicStmts}
  /\ registry = get_all_rule_functions(AlwaysDefined \cup MaybeDefined)
  /\ pc = "Ingest"
  /\ rule_functions = <<>>
  /\ i = 1
  /\ contradictions = <<>>
  /\ items = <<>>
  /\ csv = <<>>
  /\ runs = <<>>
  /\ _rules = rules_basic
  /\ weights = default_weights
  /\ scored_contradictions = <<>>
  /\ total_score = 0
  /\ rule_result = NoResult
  /\ InitTiming
  /\ InitBatch
  /\ InitWatch

\* rule_func(ctx) for a rule function of rules_basic.py.
CallRule ==
  /\ pc = "Ingest"
  /\ \E rule_name \in CalledRules :
       rule_result' = [rule |-> rule_name,
                       found |-> ApplyBasic(rule_name, statements)]
  /\ pc' = "RuleReturned"
  /\ UNCHANGED <<statements, registry, rule_functions, i, contradictions,
                 items, csv, runs, _rules>>
  /\ UNCHANGED scorer_vars
  /\ UNCHANGED timing_vars
  /\ UNCHANGED batch_vars
  /\ UNCHANGED watch_vars

NextBasic ==
  \/ Ingest
  \/ RuleApply
  \/ CallRule

SpecBasic == InitBasic /\ [][NextBasic]_vars

\* ------------------------------------ scripts/scoding.py: the watch mode
\* RuleWeights.has_changed: a missing file has not changed.
has_changed(file, modified) ==
  file.content # "<missing>" /\ file.mtime > modified

\* RuleWeights.load_weights returns True when the file exists, parses and
\* holds the key 'weights'.
load_succeeds(file) == file.content = "rule_weights.json"

\* self.last_modified after load_weights: set on the successful path only.
loaded_mtime(file, modified) ==
  IF load_succeeds(file) THEN file.mtime ELSE modified

\* `except Exception` of the watch loop.
watch_catches_narrow(cls) == cls \in {"ValueError", "KeyError"}
watch_catches(cls) == cls \in ExceptionSubclasses

\* if current_time - last_run > 300
Period == 300

\* The readings of time.time().
Times == {150 * t : t \in 1..MaxTime}

\* The contradictions file run_analysis reads: at most one record.
WatchedRecords ==
  {FileRecord("timeline_inconsistency", c, Absent)
     : c \in {NullConfidence, 80}}

\* Does run_analysis raise? Nothing in it catches what the scorer raises.
analysis_raises(data) == \E k \in 1..Len(data) : score_raises(data[k])

\* score_contradictions: the scored records and their total.
score_contradictions(data, w) ==
  [k \in 1..Len(data) |-> score_single_contradiction(data[k], w)]

RECURSIVE total_of(_, _)
total_of(data, w) ==
  IF data = <<>> THEN 0
  ELSE weighted_score(Head(data), w) + total_of(Tail(data), w)

\* The positions of the watch loop inside its try block.
InTry == {"WatchPoll", "Reload", "Analysis", "Periodic", "Sleep"}

\* watch_and_reload, lines 284-285: the loop is about to start.
InitWatchMode ==
  /\ statements = <<>>
  /\ registry = get_all_rule_functions(AlwaysDefined)
  /\ pc = "WatchPoll"
  /\ rule_functions = <<>>
  /\ i = 1
  /\ contradictions \in UNION {[1..n -> WatchedRecords] : n \in 0..1}
  /\ items = <<>>
  /\ csv = <<>>
  /\ runs = <<>>
  /\ _rules = <<>>
  /\ \E content \in WeightFiles :
       /\ weights_file = [content |-> content, mtime |-> 1]
       /\ weights = load_weights(content)
       /\ last_modified = loaded_mtime(weights_file, 0)
  /\ scored_contradictions = <<>>
  /\ total_score = 0
  /\ rule_result = NoResult
  /\ InitTiming
  /\ InitBatch
  /\ last_run = 0
  /\ now \in Times
  /\ watch_log = NoLog

\* The weights file is written, replaced or removed while the loop runs.
ModifyFile ==
  /\ pc \in InTry \cup {"HandlerSleep"}
  /\ weights_file.mtime < MaxMtime
  /\ \E content \in WeightFiles :
       weights_file' = [content |-> content, mtime |-> weights_file.mtime + 1]
  /\ UNCHANGED <<statements, registry, pc, rule_functions, i, contradictions,
                 items, csv, runs, _rules, rule_result, last_modified,
                 last_run, now, watch_log>>
  /\ UNCHANGED scorer_vars
  /\ UNCHANGED timing_vars
  /\ UNCHANGED batch_vars

\* watch_and_reload, lines 289-290: if rule_weights.has_changed().
WatchPoll ==
  /\ pc = "WatchPoll"
  /\ IF has_changed(weights_file, last_modified)
     THEN /\ pc' = "Reload"
          /\ watch_log' = [message |-> "Weights file changed, reloading...",
                           raised |-> ""]
     ELSE /\ pc' = "Periodic"
          /\ UNCHANGED watch_log
  /\ UNCHANGED <<statements, registry, rule_functions, i, contradictions,
                 items, csv, runs, _rules, rule_result, weights_file,
                 last_modified, last_run, now>>
  /\ UNCHANGED scorer_vars
  /\ UNCHANGED timing_vars
  /\ UNCHANGED batch_vars

\* watch_and_reload, lines 291 and 298-299: if rule_weights.load_weights().
WatchReload ==
  /\ pc = "Reload"
  /\ weights' = load_weights(weights_file.content)
  /\ last_modified' = loaded_mtime(weights_file, last_modified)
  /\ IF load_succeeds(weights_file)
     THEN /\ pc' = "Analysis"
          /\ watch_log' =
               [message |-> "Running analysis with updated weights...",
                raised |-> ""]
     ELSE /\ pc' = "Periodic"
          /\ watch_log' = [message |-> "Failed to reload weights",
                           raised |-> ""]
  /\ UNCHANGED <<statements, registry, rule_functions, i, contradictions,
                 items, csv, runs, _rules, rule_result, weights_file,
                 last_run, now, scored_contradictions, total_score>>
  /\ UNCHANGED timing_vars
  /\ UNCHANGED batch_vars

\* run_analysis(weights_path) inside the try block, and the handlers of
\* lines 309-314 when it raises. run_analysis loads the weights file into
\* a RuleWeights of its own.
RunAnalysis(next_pc, message) ==
  IF analysis_raises(contradictions)
  THEN /\ IF watch_catches("TypeError")
          THEN /\ pc' = "HandlerSleep"
               /\ watch_log' = [message |-> "Error in watch loop",
                                raised |-> "TypeError"]
          ELSE /\ pc' = "Crashed"
               /\ watch_log' = [watch_log EXCEPT !.raised = "TypeError"]
       /\ UNCHANGED <<scored_contradictions, total_score, last_run>>
  ELSE /\ scored_contradictions' =
            score_contradictions(contradictions,
                                 load_weights(weights_file.content))
       /\ total_score' =
            total_of(contradictions, load_weights(weights_file.content))
       /\ pc' = next_pc
       /\ watch_log' = [message |-> message, raised |-> ""]
       /\ last_run' = IF next_pc = "Sleep" THEN now ELSE last_run

\* watch_and_reload, lines 292-297: the analysis after a reload.
WatchAnalysis ==
  /\ pc = "Analysis"
  /\ RunAnalysis("Periodic", "Analysis completed successfully")
  /\ UNCHANGED <<statements, registry, rule_functions, i, contradictions,
                 items, csv, runs, _rules, rule_result, weights,
                 weights_file, last_modified, now>>
  /\ UNCHANGED timing_vars
  /\ UNCHANGED batch_vars

\* watch_and_reload, lines 301-305: the periodic analysis.
WatchPeriodic ==
  /\ pc = "Periodic"
  /\ IF now - last_run > Period
     THEN RunAnalysis("Sleep", "Running periodic analysis...")
     ELSE /\ pc' = "Sleep"
          /\ UNCHANGED <<scored_contradictions, total_score, last_run,
                         watch_log>>
  /\ UNCHANGED <<statements, registry, rule_functions, i, contradictions,
                 items, csv, runs, _rules, rule_result, weights,
                 weights_file, last_modified, now>>
  /\ UNCHANGED timing_vars
  /\ UNCHANGED batch_vars

\* time.sleep(check_interval), lines 307 and 314: the next iteration starts
\* at a later time.
WatchSleep ==
  /\ pc \in {"Sleep", "HandlerSleep"}
  /\ \E t \in Times : t > now /\ now' = t
  /\ pc' = "WatchPoll"
  /\ watch_log' = NoLog
  /\ UNCHANGED <<statements, registry, rule_functions, i, contradictions,
                 items, csv, runs, _rules, rule_result, weights_file,
                 last_modified, last_run>>
  /\ UNCHANGED scorer_vars
  /\ UNCHANGED timing_vars
  /\ UNCHANGED batch_vars

\* The user interrupts: lines 309-311 inside the try block; in the sleep of
\* the handler of line 314 the KeyboardInterrupt leaves watch_and_reload.
Interrupt ==
  /\ pc \in InTry \cup {"HandlerSleep"}
  /\ IF pc \in InTry
     THEN /\ pc' = "Stopped"
          /\ watch_log' = [message |-> "Watch mode stopped by user",
                           raised |-> "KeyboardInterrupt"]
     ELSE /\ pc' = "Interrupted"
          /\ watch_log' = [watch_log EXCEPT !.raised = "KeyboardInterrupt"]
  /\ UNCHANGED <<statements, registry, rule_functions, i, contradictions,
                 items, csv, runs, _rules, rule_result, weights_file,
                 last_modified, last_run, now>>
  /\ UNCHANGED scorer_vars
  /\ UNCHANGED timing_vars
  /\ UNCHANGED batch_vars

NextWatch ==
  \/ ModifyFile
  \/ WatchPoll
  \/ WatchReload
  \/ WatchAnalysis
  \/ WatchPeriodic
  \/ WatchSleep
  \/ Interrupt

SpecWatch == InitWatchMode /\ [][NextWatch]_vars

\* -------------------------------------- analyzer/scoding.py: score_batch
\* The texts of the documents: None, the empty text, a blank text, and texts
\* over the vocabulary of the scorer.
TextPool ==
  { Absent, <<>>, <<" ">>, <<"perjury">>, <<"incident">>,
    <<"incident", "routine", "criminal">> }

\* None, an empty dict, and a str where a dict is expected.
MetadataPool == {Absent, "{}", "meta"}

DocIds == {"doc_1", "doc_2"}

InitBatchRun ==
  /\ statements = <<>>
  /\ registry = get_all_rule_functions(AlwaysDefined)
  /\ pc = "ScoreBatch"
  /\ rule_functions = <<>>
  /\ i = 1
  /\ contradictions = <<>>
  /\ items = <<>>
  /\ csv = <<>>
  /\ runs = <<>>
  /\ _rules = <<>>
  /\ weights = default_weights
  /\ scored_contradictions = <<>>
  /\ total_score = 0
  /\ rule_result = NoResult
  /\ InitTiming
  /\ documents \in
       UNION {[1..n -> DocIds \X TextPool \X MetadataPool] : n \in 0..MaxDocs}
  /\ results = <<>>
  /\ InitWatch

\* score_batch, lines 461-474: the next document of the batch.
ScoreDocument ==
  /\ pc = "ScoreBatch"
  /\ i <= Len(documents)
  /\ results' = score_batch_step(results, documents[i])
  /\ i' = i + 1
  /\ UNCHANGED <<statements, registry, pc, rule_functions, contradictions,
                 items, csv, runs, _rules, rule_result, documents>>
  /\ UNCHANGED scorer_vars
  /\ UNCHANGED timing_vars
  /\ UNCHANGED watch_vars

\* score_batch, line 476: return results.
BatchReturn ==
  /\ pc = "ScoreBatch"
  /\ i > Len(documents)
  /\ pc' = "BatchReturned"
  /\ UNCHANGED <<statements, registry, rule_functions, i, contradictions,
                 items, csv, runs, _rules, rule_result>>
  /\ UNCHANGED scorer_vars
  /\ UNCHANGED timing_vars
  /\ UNCHANGED batch_vars
  /\ UNCHANGED watch_vars

NextBatch ==
  \/ ScoreDocument
  \/ BatchReturn

SpecBatch == InitBatchRun /\ [][NextBatch]_vars

\* ------------------------------- analyzer/scoding.py: _determine_s_code
\* The scores _determine_s_code is called on: the ends of the ranges, a
\* score inside each range and a score between each two ranges.
ScoreSamples ==
  { 0, 5000, 10000, 20000, 29000, 29500, 30000, 40000, 49000, 49300, 50000,
    60000, 69000, 69900, 70000, 80000, 89000, 89500, 90000, 95000, 100000 }

InitSCode ==
  /\ statements = <<>>
  /\ registry = get_all_rule_functions(AlwaysDefined)
  /\ pc = "SCodeCalls"
  /\ rule_functions = <<>>
  /\ i = 1
  /\ contradictions = <<>>
  /\ items = <<>>
  /\ csv = <<>>
  /\ runs = <<>>
  /\ _rules = <<>>
  /\ weights = default_weights
  /\ scored_contradictions = <<>>
  /\ total_score = 0
  /\ rule_result = [rule |-> "_determine_s_code", found |-> <<>>]
  /\ InitTiming
  /\ InitBatch
  /\ InitWatch

\* self._determine_s_code(score); the codes returned are kept.
CallDetermineSCode ==
  /\ pc = "SCodeCalls"
  /\ Len(rule_result.found) < MaxSCodeCalls
  /\ \E score \in ScoreSamples :
       rule_result' =
         [rule_result EXCEPT !.found =
            Append(@, [score |-> score,
                       s_code |-> _determine_s_code(score)])]
  /\ UNCHANGED <<statements, registry, pc, rule_functions, i, contradictions,
                 items, csv, runs, _rules>>
  /\ UNCHANGED scorer_vars
  /\ UNCHANGED timing_vars
  /\ UNCHANGED batch_vars
  /\ UNCHANGED watch_vars

NextSCode == CallDetermineSCode

SpecSCode == InitSCode /\ [][NextSCode]_vars

\* ----------------------------------------------- rules that take long
\* evaluate, line 21: the call rule_func(statements) is still running. The
\* loop holds no deadline: it waits for the call whatever time it takes.
RuleTick ==
  /\ pc = "RuleApply"
  /\ i <= Len(rule_functions)
  /\ elapsed[rule_functions[i]] < MaxTicks
  /\ elapsed' = [elapsed EXCEPT ![rule_functions[i]] = @ + 1]
  /\ UNCHANGED <<statements, registry, pc, rule_functions, i, contradictions,
                 items, csv, runs, _rules, rule_result>>
  /\ UNCHANGED scorer_vars
  /\ UNCHANGED batch_vars
  /\ UNCHANGED watch_vars

InitTimed == Init /\ Len(statements) <= MaxTimedStmts

NextTimed ==
  \/ Ingest
  \/ RuleTick
  \/ RuleApply

SpecTimed == InitTimed /\ [][NextTimed]_vars

\* Runs on short statement lists during which rules are registered and
\* cleared.
InitRegistry == Init /\ Len(statements) <= MaxRegistryStmts

NextRegistry ==
  \/ Ingest
  \/ RuleApply
  \/ DedupStage
  \/ ScoreStage
  \/ SortStage
  \/ Emit
  \/ RegisterRule
  \/ ClearRules

SpecRegistry == InitRegistry /\ [][NextRegistry]_vars

\* ------------------------------------------------------------------ claims
\* evaluate has returned: contradictions holds its result.
EvaluateDone == pc \in {"Dedup", "Score", "Sort", "Emit", "Done"}

\* Positions of the registered rules that raise on the statements.
Raisers ==
  {k \in 1..Len(rule_functions) : Raises(rule_functions[k], statements)}

OfType(cands, type) == SelectSeq(cands, LAMBDA c : c.type = type)

Range(seq) == {seq[k] : k \in 1..Len(seq)}

\* C1: when exactly one registered rule raises, evaluate returns, for every
\* other registered rule, exactly the candidates that rule produces, plus
\* exactly one __engine_error__ record.
C1_FaultIsolation ==
  (EvaluateDone /\ Cardinality(Raisers) = 1) =>
    /\ Len(engine_errors(contradictions)) = 1
    /\ \A k \in 1..Len(rule_functions) \ Raisers :
         OfType(contradictions, rule_functions[k])
           = Apply(rule_functions[k], statements)

C1_Witness ==
  /\ EvaluateDone
  /\ Cardinality(Raisers) = 1
  /\ Len(contradictions) > 1
  /\ contradictions[Len(contradictions)].type = "__engine_error__"

\* C2: no exception of a rule leaves evaluate; every run that has passed
\* evaluate holds a result list whose error count is the number of rules that
\* raised, and the finished run reports that count.
C2_NoExceptionEscapes ==
  /\ pc # "Escaped"
  /\ EvaluateDone =>
       Len(engine_errors(contradictions)) = Cardinality(Raisers)
  /\ pc = "Done" =>
       runs[Len(runs)].num_errors = Cardinality(Raisers)

C2_Witness ==
  /\ pc = "Done"
  /\ Cardinality(Raisers) >= 2
  /\ runs[Len(runs)].num_errors >= 2

\* C3: contradiction_id(a, b) = contradiction_id(b, a) for every pair of
\* statements of the input, and the id a rule stored on a candidate is the id
\* of its two statements taken in the opposite order.
C3_IdSymmetry ==
  /\ \A x, y \in 1..Len(statements) :
       contradiction_id(statements[x], statements[y])
         = contradiction_id(statements[y], statements[x])
  /\ \A k \in 1..Len(contradictions) :
       contradictions[k].statement_a # <<>> =>
         contradictions[k].contradiction_id
           = contradiction_id(contradictions[k].statement_b[1],
                              contradictions[k].statement_a[1])

C3_Witness ==
  \E k \in 1..Len(contradictions) :
    /\ contradictions[k].statement_a # <<>>
    /\ StrLess(StmtIdStr(contradictions[k].statement_b[1]),
               StmtIdStr(contradictions[k].statement_a[1]))

\* The two statements of a pair candidate, as a set, and its group key.
PairOf(c) == {c.statement_a[1], c.statement_b[1]}
GroupKey(c) ==
  IF c.type = "status_change_inconsistency"
  THEN <<StatusCaseKey(c.statement_a[1])>>
  ELSE LocationKey(c.statement_a[1])

\* C4: two candidates over the same pair of statements that differ in rule
\* name or in group key have different contradiction_ids.
C4_RuleAndKeyInHash ==
  \A x, y \in 1..Len(contradictions) :
    LET c == contradictions[x]
        d == contradictions[y]
    IN  ( /\ c.statement_a # <<>>
          /\ d.statement_a # <<>>
          /\ PairOf(c) = PairOf(d)
          /\ (c.type # d.type \/ GroupKey(c) # GroupKey(d)) )
        => c.contradiction_id # d.contradiction_id

\* C5: the emitted record list holds no contradiction_id twice (the check of
\* verify_outputs on the contradiction_id column of the CSV).
C5_OneRecordPerId ==
  pc = "Done" =>
    \A x, y \in 1..Len(csv) :
      x # y => csv[x].contradiction_id # csv[y].contradiction_id

\* Lexicographic order of two 16-digit hex ids: the order of their values.
CidLE(c, d) == c.h <= d.h

\* C6: adjacent records of the output are ordered by score descending and,
\* on equal scores, by contradiction_id ascending (stated for the adjacent
\* records that both carry a hex id).
C6_SortInvariant ==
  pc = "Done" =>
    \A k \in 1..(Len(items) - 1) :
      /\ items[k].score >= items[k + 1].score
      /\ ( /\ items[k].score = items[k + 1].score
           /\ items[k].contradiction_id.kind = "hex"
           /\ items[k + 1].contradiction_id.kind = "hex" )
         => CidLE(items[k].contradiction_id, items[k + 1].contradiction_id)

\* C7: two runs over the same statements with the same set of rules emit the
\* same record sequence, whatever the order the rules ran in.
C7_OrderIndependent ==
  ( /\ Len(runs) = 2
    /\ Range(runs[1].rule_functions) = Range(runs[2].rule_functions) )
  => runs[1].items = runs[2].items

\* C8: two runs over the same statements with the same rule list emit the
\* same records in the same order (the JSON items and the CSV rows agree).
C8_Deterministic ==
  ( /\ Len(runs) = 2
    /\ runs[1].rule_functions = runs[2].rule_functions )
  => /\ runs[1].items = runs[2].items
     /\ runs[1].csv = runs[2].csv
     /\ runs[1].rules_fingerprint = runs[2].rules_fingerprint

C8_Witness ==
  /\ Len(runs) = 2
  /\ runs[1].rule_functions = runs[2].rule_functions
  /\ Cardinality(IdLess(runs[2].contradictions)) >= 2
  /\ Len(runs[2].items) >= 3

\* C9: of the candidates that share a contradiction_id the deduplicated list
\* keeps exactly one, the one seen last in the candidate sequence.
C9_LastSeenWins ==
  pc \in {"Score", "Sort", "Emit", "Done"} =>
    \A x \in 1..Len(contradictions) :
      LET cid == contradictions[x].contradiction_id
          sharing == {k \in 1..Len(contradictions) :
                        contradictions[k].contradiction_id = cid}
          last == CHOOSE k \in sharing : \A m \in sharing : m <= k
          kept == {n \in 1..Len(items) : items[n].contradiction_id = cid}
      IN  (cid.kind # "none" /\ Cardinality(sharing) >= 2) =>
            /\ Cardinality(kept) = 1
            /\ \A n \in kept :
                 [items[n] EXCEPT !.score = NoScore] = contradictions[last]

C9_Witness ==
  /\ pc = "Done"
  /\ \E x, y \in 1..Len(contradictions) :
       /\ x < y
       /\ contradictions[x].contradiction_id.kind = "hex"
       /\ contradictions[x].contradiction_id = contradictions[y].contradiction_id
       /\ contradictions[x] # contradictions[y]

\* C10: the rules fingerprints of two runs are equal exactly when the two
\* runs had the same set of registered rule names, in whatever order.
C10_FingerprintSensitivity ==
  Len(runs) = 2 =>
    ( runs[1].rules_fingerprint = runs[2].rules_fingerprint
        <=> Range(runs[1].rule_functions) = Range(runs[2].rule_functions) )

C10_Witness ==
  /\ Len(runs) = 2
  /\ Range(runs[1].rule_functions) # Range(runs[2].rule_functions)
  /\ runs[1].rules_fingerprint # runs[2].rules_fingerprint

\* C11: every record evaluate emits for a rule that raised has the rule name
\* __engine_error__ in its type, the severity low, and a description that
\* holds the failing rule's name and the message of the exception.
C11_EngineErrorShape ==
  \A k \in 1..Len(contradictions) :
    contradictions[k].contradiction_id.kind = "error" =>
      LET e == contradictions[k]
          failing == e.contradiction_id.rule
      IN  /\ e.type = "__engine_error__"
          /\ e.severity = "low"
          /\ Contains(e.description, failing)
          /\ Contains(e.description, ErrorMessage(failing))

\* The successor relation of the stages as the pipeline is described: the
\* rules assign the identity while they are applied, then Score, Dedup,
\* Sort, Emit; Done is the run ended after Emit, from where a new run starts.
DescribedOrder ==
  {<<"Ingest", "RuleApply">>, <<"RuleApply", "Score">>, <<"Score", "Dedup">>,
   <<"Dedup", "Sort">>, <<"Sort", "Emit">>, <<"Emit", "Done">>,
   <<"Done", "Ingest">>}

\* C12: every step that leaves a stage enters the stage that follows it in
\* the order Ingest, RuleApply (with the identity assignment), Score, Dedup,
\* Sort, Emit: scoring precedes dedup, dedup precedes sort, the run ends
\* after Emit.
C12_StageOrder == [][pc' # pc => <<pc, pc'>> \in DescribedOrder]_vars

\* The multiset of the elements of a sequence: each element with its count.
Multiset(seq) ==
  [c \in Range(seq) |-> Cardinality({k \in 1..Len(seq) : seq[k] = c})]

StatementsOf(c) == Range(c.statement_a \o c.statement_b \o c.statements)

NeededField(rule_func) ==
  CASE rule_func \in AlwaysDefined -> "content"
    [] rule_func = "status_change_inconsistency" -> "status"
    [] rule_func = "location_contradiction" -> "location"

\* The statement has no value for the field: the key is absent or holds None.
Lacks(rule_func, stmt) ==
  IF NeededField(rule_func) = "content"
  THEN stmt.content \in {<<Absent>>, <<NonStr>>}
  ELSE stmt[NeededField(rule_func)] = Absent

\* C16: a rule skips the statements that lack the field it needs: when the
\* other statements give the rule no reason to raise, evaluate holds no
\* __engine_error__ record of the rule, and the candidates of the rule are
\* those it produces on the list without the lacking statements.
C16_LackingSkipped ==
  EvaluateDone =>
    \A k \in 1..Len(rule_functions) :
      LET r == rule_functions[k]
          rest == SelectSeq(statements, LAMBDA st : ~Lacks(r, st))
      IN  (Len(rest) < Len(statements) /\ ~Raises(r, rest)) =>
            /\ \A e \in Range(engine_errors(contradictions)) : e.rule # r
            /\ OfType(contradictions, r) = Apply(r, rest)

\* C17: every __engine_error__ record of the scored output has the score 0.
C17_EngineErrorScoresZero ==
  \A k \in 1..Len(scored_contradictions) :
    scored_contradictions[k].type = "__engine_error__" =>
      scored_contradictions[k].score = 0

\* C18: every score of the scored output lies in [0, 100] (scores are held
\* in tenths), whatever the confidence, the weight and the severity.
C18_ScoreInRange ==
  \A k \in 1..Len(scored_contradictions) :
    /\ scored_contradictions[k].score >= 0
    /\ scored_contradictions[k].score <= 100 * 10

\* C19: two records of the input that differ in nothing but their confidence
\* get the same score.
C19_ConfidenceNotInScore ==
  \A x, y \in 1..Len(scored_contradictions) :
    [contradictions[x] EXCEPT !.confidence = NoConfidence]
      = [contradictions[y] EXCEPT !.confidence = NoConfidence]
    => scored_contradictions[x].score = scored_contradictions[y].score

\* C20: a record of a rule of the metadata table, with a severity of the
\* severity table, gets the score severity weight * 10 + base weight of the
\* rule (scores are held in tenths).
C20_BaseScoreFormula ==
  \A k \in 1..Len(scored_contradictions) :
    LET c == scored_contradictions[k]
    IN  (c.type \in DOMAIN RULE_META /\ c.severity \in DOMAIN SEVERITY_BASE)
        => c.score = 10 * (SEVERITY_BASE[c.severity] * 10 + RULE_META[c.type])

\* C21: the scorer returns a score for every record of its input, also for
\* one whose confidence or severity is missing or holds no usable value:
\* the scoring never ends in an exception, and the scored list it returns
\* has one record for every record of the input.
C21_ScoringNeverFails ==
  /\ pc # "ScoringFailed"
  /\ pc = "Scored" => Len(scored_contradictions) = Len(contradictions)

\* C22: on exactly two statements of the same event and the same party,
\* one present and one not, the run (evaluate) returns exactly one record
\* of the rule presence_absence_conflict.
C22_OnePresenceRecord ==
  ( /\ EvaluateDone
    /\ Len(statements) = 2
    /\ \A k \in 1..2 : statements[k].type = "PRESENCE"
    /\ statements[1].event_id = statements[2].event_id
    /\ statements[1].party = statements[2].party
    /\ {statements[1].present, statements[2].present} = {"True", "False"} )
  => Len(OfType(contradictions, "presence_absence_conflict")) = 1

\* The distinct dates the EVENT_DATE statements assert for an event.
DatesOf(e) ==
  {statements[k].date : k \in {n \in 1..Len(statements) :
      /\ statements[n].type = "EVENT_DATE"
      /\ statements[n].event_id = e
      /\ statements[n].date # Absent}}

C24_DistinctPairsDistinctIds ==
  \A x, y \in 1..Len(rule_result.found) :
    LET f == rule_result.found[x]
        g == rule_result.found[y]
    IN  (rule_result.rule = "contradiction_id" /\ {f.a, f.b} # {g.a, g.b})
        => f.id # g.id

\* C25: every record of the output, whichever rule produced it, carries a
\* contradiction_id that is a string of 16 hexadecimal digits.
C25_AllIdsHex16 ==
  pc = "Done" =>
    \A k \in 1..Len(items) : items[k].contradiction_id.kind = "hex"

\* C26: a rule that times out is handled exactly like a rule that raises:
\* evaluate returns exactly one __engine_error__ record naming the rule and
\* none of its candidates, and every other rule's candidates are those the
\* rule produces. A call has timed out when it ran for MaxTicks, longer than
\* any limit below that.
TimedOut == {r \in Range(rule_functions) : elapsed[r] = MaxTicks}

C26_TimeoutIsEngineError ==
  EvaluateDone =>
    /\ \A r \in TimedOut :
         /\ Len(SelectSeq(contradictions,
                          LAMBDA c : c.type = "__engine_error__"
                                       /\ c.rule = r)) = 1
         /\ OfType(contradictions, r) = <<>>
    /\ \A r \in Range(rule_functions) \ (TimedOut \cup
                                           {rule_functions[k] : k \in Raisers}) :
         OfType(contradictions, r) = Apply(r, statements)

\* C27: in watch mode each modification of the weights file triggers exactly
\* one reload attempt: once the loop has called load_weights, has_changed()
\* is false until the modification time of the file increases again.
ReloadStep == pc = "Reload" /\ pc' \in {"Analysis", "Periodic"}

C27_OneReloadPerModification ==
  [][ReloadStep => ~has_changed(weights_file', last_modified')]_vars

\* C28: the watch loop stops only on KeyboardInterrupt: any other exception
\* raised during an iteration is logged and the loop goes on to the sleep
\* that precedes the next poll.
LoopEnded == pc \in {"Stopped", "Interrupted", "Crashed"}

C28_StopsOnlyOnInterrupt ==
  [][/\ (~LoopEnded /\ LoopEnded') =>
          watch_log'.raised = "KeyboardInterrupt"
     /\ (pc \in {"Analysis", "Periodic"}
          /\ watch_log'.raised \in ExceptionSubclasses) =>
          /\ pc' = "HandlerSleep"
          /\ watch_log'.message = "Error in watch loop"]_vars

\* An analysis raised, the error was logged and the loop sleeps before the
\* next poll.
C28_Witness ==
  /\ pc = "HandlerSleep"
  /\ watch_log = [message |-> "Error in watch loop", raised |-> "TypeError"]

\* C29: score_batch returns exactly one result per input document, in input
\* order and carrying that document's id; a document whose scoring raises
\* yields an error result (s_code S5, numeric_score 0.0, confidence 0.0) and
\* the documents after it are scored as they are on their own.
C29_OneResultPerDocument ==
  pc = "BatchReturned" =>
    /\ Len(results) = Len(documents)
    /\ \A k \in 1..Len(documents) :
         LET doc == documents[k]
         IN  /\ results[k].document_id = doc[1]
             /\ IF score_document_raises(doc[2], doc[3])
                THEN /\ results[k].error # Absent
                     /\ results[k].s_code = "S5"
                     /\ results[k].numeric_score = 0
                     /\ results[k].confidence = 0
                ELSE /\ results[k].error = Absent
                     /\ results[k].s_code =
                          score_document(doc[2], doc[3]).s_code
                     /\ results[k].numeric_score =
                          score_document(doc[2], doc[3]).numeric_score

\* A batch whose first document raised and whose second was scored S2.
C29_Witness ==
  /\ pc = "BatchReturned"
  /\ Len(documents) = 2
  /\ documents[1][2] = Absent
  /\ results[1].error # Absent
  /\ results[2].s_code = "S2"
  /\ results[2].document_id = documents[2][1]

\* C30: _determine_s_code is monotone over the scores in [0, 10]: a higher
\* score never maps to a lower-priority S-code than a lower score does; 10.0
\* maps to S1 and 0.0 to S5.
Priority(s_code) ==
  CASE s_code = "S1" -> 5 [] s_code = "S2" -> 4 [] s_code = "S3" -> 3
    [] s_code = "S4" -> 2 [] s_code = "S5" -> 1

C30_SCodeMonotone ==
  rule_result.rule = "_determine_s_code" =>
    \A x, y \in 1..Len(rule_result.found) :
      LET f == rule_result.found[x]
          g == rule_result.found[y]
      IN  /\ f.score <= g.score => Priority(f.s_code) <= Priority(g.s_code)
          /\ f.score = 100000 => f.s_code = "S1"
          /\ f.score = 0 => f.s_code = "S5"

====
